---- MODULE Spec2Model ----
(***************************************************************************)
(* Model of the clipgen-ai media pipeline: the API handlers that create a  *)
(* Video and dispatch its job (app/main.py), the Celery tasks that run the *)
(* pipeline and the shorts conversion (app/tasks.py), and the ranker's     *)
(* decoding of the oracle response (app/ai_logic.py).                      *)
(*                                                                         *)
(* Times are integers counting tenths of a millisecond, so that rounding    *)
(* to three decimals does something.  A row field that is None in the      *)
(* program is the empty tuple; a present optional value x is the           *)
(* one-element tuple <<x>>.  Object-storage keys are tuples of their path  *)
(* components.                                                             *)
(***************************************************************************)
EXTENDS Integers, Sequences, FiniteSets, TLC

VARIABLES
    kind,            \* which endpoint created the Video: "upload" | "youtube"
    apc,             \* position of the API handler (upload_video / process_youtube_url)
    video,           \* the persisted Video row: [status, task_id, s3_key]
    wpc,             \* position of the worker task for the Video
    wresult,         \* how the worker task ended: "none" | "Complete" | "Failed" | "raised"
    temp_dir,        \* TRUE while process_video_task's temporary directory exists
    segments,        \* result["segments"] of the transcription
    response,        \* the oracle response handed to identify_viral_clips
    ai_suggestions,  \* the list returned by identify_viral_clips
    i,               \* loop index of the materialization loop (0-based, as enumerate)
    pending,         \* Clip rows added to the worker's session, not yet committed
    clips,           \* committed Clip rows
    rankerInvoked,   \* history: identify_viral_clips was called in this run
    indexRaised,     \* history: index_transcript raised in this run
    failedAt,        \* history: the stage whose failure ended the run, or "none"
    attempted,       \* history: loop indices whose cut was attempted
    skipped,         \* history: loop indices skipped after a failed upload
    shortsTasks,     \* dispatched convert_clip_to_shorts_task instances; a task
                     \* whose encode ran carries the conversion it applied
    replies,         \* responses returned by the clip endpoints, in order
    bucket,          \* the objects of the S3 bucket: [key, content, captions]
    call             \* a function called on its own: [fn, args, returned, result]

pipelineVars == <<kind, apc, video, wpc, wresult, temp_dir, segments, response,
                  ai_suggestions, i, pending, rankerInvoked, indexRaised,
                  failedAt, attempted, skipped>>
shortsVars == <<shortsTasks, replies>>
pureVars == <<call>>
vars == <<kind, apc, video, wpc, wresult, temp_dir, segments, response,
          ai_suggestions, i, pending, clips, rankerInvoked, indexRaised,
          failedAt, attempted, skipped, shortsTasks, replies, bucket, call>>

----------------------------------------------------------------------------
(* Bounds *)

\* most candidates in one oracle response
MaxCands == 2
\* most convert-shorts requests handled in one behaviour
MaxRequests == 2
\* most segments of a transcript handed to extract_clip_transcript on its own
MaxSegs == 2
\* largest width and height of the small source videos
MaxDim == 12
\* most positions of a trajectory handed to generate_crop_filter on its own
MaxTraj == 2
\* most frames of a detection sequence handed to smooth_positions
MaxDetections == 5
\* most frames handed to identify_viral_clips_multimodal
MaxFramePaths == 65

----------------------------------------------------------------------------
(* Values *)

NULL == <<>>
Some(x) == <<x>>

\* a time of n whole seconds
Sec(n) == n * 10000

\* no function is called on its own
NoCall == [fn |-> "none", args |-> <<>>, returned |-> FALSE, result |-> <<>>]

Owner == "u1"
VideoId == "v1"
Users == {"u1", "u2"}

\* models.VideoStatus, plus "NONE" for a Video row that does not exist yet
VideoStatus == {"PENDING", "PROCESSING", "COMPLETED", "FAILED"}
Terminal == {"COMPLETED", "FAILED"}

\* the field names of the candidate schema (ai_logic.Clip)
Fields == {"start", "end", "reason", "virality_score", "hook_type"}

\* a candidate as decoded from the oracle's JSON: `has` is the set of keys
\* the dict carries; the value of an absent key is never read
Cand(s, e, sc, has) ==
    [start |-> s, end |-> e, virality_score |-> sc, has |-> has]

\* items the response schema accepts: every field present, score in 0..100
\* (the schema constrains neither the window nor its length)
WellFormedItems == {Cand(Sec(0), Sec(25), 80, Fields),
                    Cand(Sec(30), Sec(55), 90, Fields),
                    Cand(Sec(10), Sec(50), 80, Fields)}
\* items the schema rejects: a field missing, or the score out of range
MalformedItems == {Cand(Sec(10), Sec(50), 80, Fields \ {"reason"}),
                   Cand(Sec(0), Sec(25), 80, Fields \ {"start"})}
OutOfRangeItems == {Cand(Sec(0), Sec(25), 150, Fields)}
OracleItems == WellFormedItems \cup MalformedItems \cup OutOfRangeItems

SeqsUpTo(S, n) == UNION {[1..k -> S] : k \in 0..n}

\* What generate_content can give back.  `parsed` is the SDK's schema-checked
\* object (so its items carry every field); otherwise `text` says what
\* json.loads(response.text) yields: "bad" (not JSON), "clips_obj" (a dict
\* with key "clips"), "other_obj" (a dict without it), "list" (a bare list).
Responses ==
    {[parsed |-> TRUE, text |-> "clips_obj", items |-> s] :
        s \in SeqsUpTo(WellFormedItems, MaxCands)}
    \cup {[parsed |-> FALSE, text |-> t, items |-> s] :
        t \in {"clips_obj", "list"}, s \in SeqsUpTo(OracleItems, MaxCands)}
    \cup {[parsed |-> FALSE, text |-> t, items |-> <<>>] :
        t \in {"bad", "other_obj"}}

NoResponse == [parsed |-> FALSE, text |-> "none", items |-> <<>>]

\* Whisper transcripts the transcription step can produce
\* (Whisper's segment texts begin with a space)
Seg(s, e) == [start |-> s, end |-> e, text |-> " t"]
Transcripts ==
    {<<>>, <<Seg(Sec(0), Sec(5)), Seg(Sec(5), Sec(35)), Seg(Sec(35), Sec(40))>>}

----------------------------------------------------------------------------
(* Pure functions *)

Max(a, b) == IF a >= b THEN a ELSE b
Min(a, b) == IF a <= b THEN a ELSE b

\* text.strip() on the texts that occur
Strip(text) == IF text = " t" THEN "t" ELSE text

\* round(x, 3): to the nearest millisecond, a tie to the even one
Round3(x) ==
    LET q == x \div 10
        r == x % 10
    IN IF r < 5 THEN 10 * q
       ELSE IF r > 5 THEN 10 * (q + 1)
       ELSE IF q % 2 = 0 THEN 10 * q ELSE 10 * (q + 1)

RECURSIVE extract_clip_transcript_unclamped(_, _, _)
\* (variant: the shifted start is not clamped at 0)
extract_clip_transcript_unclamped(segs, start_time, end_time) ==
    IF segs = <<>> THEN <<>>
    ELSE LET seg == Head(segs)
             rest == extract_clip_transcript_unclamped(Tail(segs), start_time,
                                                       end_time)
         IN IF seg.end > start_time /\ seg.start < end_time
            THEN <<[start |-> Round3(seg.start - start_time),
                    end |-> Round3(Min(end_time - start_time,
                                       seg.end - start_time)),
                    text |-> Strip(seg.text)]>> \o rest
            ELSE rest

RECURSIVE extract_clip_transcript_touching(_, _, _)
\* (variant: a segment that only touches the window counts as overlapping)
extract_clip_transcript_touching(segs, start_time, end_time) ==
    IF segs = <<>> THEN <<>>
    ELSE LET seg == Head(segs)
             rest == extract_clip_transcript_touching(Tail(segs), start_time,
                                                      end_time)
         IN IF seg.end >= start_time /\ seg.start <= end_time
            THEN <<[start |-> Round3(Max(0, seg.start - start_time)),
                    end |-> Round3(Min(end_time - start_time,
                                       seg.end - start_time)),
                    text |-> Strip(seg.text)]>> \o rest
            ELSE rest

RECURSIVE extract_clip_transcript(_, _, _)
\* tasks.extract_clip_transcript: the segments overlapping [start_time,
\* end_time], shifted to clip-local time, clamped to the clip and rounded
extract_clip_transcript(segs, start_time, end_time) ==
    IF segs = <<>> THEN <<>>
    ELSE LET seg == Head(segs)
             rest == extract_clip_transcript(Tail(segs), start_time, end_time)
         IN IF seg.end > start_time /\ seg.start < end_time
            THEN <<[start |-> Round3(Max(0, seg.start - start_time)),
                    end |-> Round3(Min(end_time - start_time,
                                       seg.end - start_time)),
                    text |-> Strip(seg.text)]>> \o rest
            ELSE rest

\* int(n / d) for d > 0: the quotient truncated towards zero
Trunc(n, d) == IF n >= 0 THEN n \div d ELSE -((-n) \div d)

\* a fraction; positions in the frame are pairs <<x, y>> of fractions
Rat(n, d) == [num |-> n, den |-> d]
RatEq(a, b) == a.num * b.den = b.num * a.den

RECURSIVE RatSum(_)
\* sum(...) of a list of fractions
RatSum(rs) ==
    IF rs = <<>> THEN Rat(0, 1)
    ELSE LET r == Head(rs)
             t == RatSum(Tail(rs))
         IN Rat(r.num * t.den + t.num * r.den, r.den * t.den)

\* sum(p[c] for p in positions) / len(positions), for coordinate c
Average(positions, c) ==
    LET total == RatSum([k \in 1..Len(positions) |-> positions[k][c]])
    IN Rat(total.num, total.den * Len(positions))

\* the crop of the 9:16 conversions before the dimensions are made even:
\* target_ratio is 9/16 (1080/1920), "wider" is width/height > target_ratio
CropBox(width, height) ==
    IF 16 * width > 9 * height
    THEN [width |-> (9 * height) \div 16, height |-> height]
    ELSE [width |-> width, height |-> (16 * width) \div 9]

\* utils.convert_to_shorts: the numbers of its crop filter
\* crop={new_width}:{new_height}:{x_offset}:{y_offset}
convert_to_shorts(width, height) ==
    LET box == CropBox(width, height)
        wider == 16 * width > 9 * height
    IN [crop_width |-> box.width - (box.width % 2),
        crop_height |-> box.height - (box.height % 2),
        x_offset |-> IF wider THEN (width - box.width) \div 2 ELSE 0,
        y_offset |-> IF wider THEN 0 ELSE (height - box.height) \div 2]

\* (variant: the offset is used as computed, without clamping)
generate_crop_filter_unclamped(smoothed_positions, video_width, video_height) ==
    LET box == CropBox(video_width, video_height)
        crop_width == box.width - (box.width % 2)
        crop_height == box.height - (box.height % 2)
        avg_x == IF smoothed_positions # <<>>
                 THEN Average(smoothed_positions, 1) ELSE Rat(1, 2)
        avg_y == IF smoothed_positions # <<>>
                 THEN Average(smoothed_positions, 2) ELSE Rat(1, 2)
    IN [crop_width |-> crop_width,
        crop_height |-> crop_height,
        x_offset |-> Trunc(avg_x.num * video_width
                              - (crop_width \div 2) * avg_x.den, avg_x.den),
        y_offset |-> Trunc(avg_y.num * video_height
                              - (crop_height \div 2) * avg_y.den, avg_y.den)]

\* face_tracking.generate_crop_filter: the numbers of its crop filter; the
\* crop is centred on the average position and clamped into the frame
generate_crop_filter(smoothed_positions, video_width, video_height) ==
    LET box == CropBox(video_width, video_height)
        crop_width == box.width - (box.width % 2)
        crop_height == box.height - (box.height % 2)
        max_x_offset == video_width - crop_width
        max_y_offset == video_height - crop_height
        avg_x == IF smoothed_positions # <<>>
                 THEN Average(smoothed_positions, 1) ELSE Rat(1, 2)
        avg_y == IF smoothed_positions # <<>>
                 THEN Average(smoothed_positions, 2) ELSE Rat(1, 2)
        x_offset == Trunc(avg_x.num * video_width
                             - (crop_width \div 2) * avg_x.den, avg_x.den)
        y_offset == Trunc(avg_y.num * video_height
                             - (crop_height \div 2) * avg_y.den, avg_y.den)
    IN [crop_width |-> crop_width,
        crop_height |-> crop_height,
        x_offset |-> Max(0, Min(x_offset, max_x_offset)),
        y_offset |-> Max(0, Min(y_offset, max_y_offset))]

\* the centre of the frame, smooth_positions' default for last_valid
Centre == <<Rat(1, 2), Rat(1, 2)>>

RECURSIVE FillForward(_, _)
\* smooth_positions, first loop: a frame without detection (None, here
\* NULL) takes the last detected position, the centre before the first one
FillForward(positions, last_valid) ==
    IF positions = <<>> THEN <<>>
    ELSE LET pos == Head(positions)
             valid == IF pos # NULL THEN <<pos[1], pos[2]>> ELSE last_valid
         IN <<valid>> \o FillForward(Tail(positions), valid)

\* smooth_positions, second loop: the average of filled_positions over the
\* window [i - half_window, i + half_window] cut to the list (i = k - 1)
MovingAverage(filled_positions, window_size) ==
    LET half_window == window_size \div 2
        n == Len(filled_positions)
    IN [k \in 1..n |->
          LET start_idx == Max(0, (k - 1) - half_window)
              end_idx == Min(n, (k - 1) + half_window + 1)
              window == SubSeq(filled_positions, start_idx + 1, end_idx)
          IN <<Average(window, 1), Average(window, 2)>>]

\* (variant: a frame without detection always takes the centre)
smooth_positions_no_hold(positions, window_size) ==
    MovingAverage([k \in 1..Len(positions) |->
                      IF positions[k] # NULL
                      THEN <<positions[k][1], positions[k][2]>> ELSE Centre],
                  window_size)

\* face_tracking.smooth_positions
smooth_positions(positions, window_size) ==
    MovingAverage(FillForward(positions, Centre), window_size)

\* identify_viral_clips_multimodal: the cap on the frames sent to the oracle
max_frames == 30

\* identify_viral_clips_multimodal, the frames put into the request: every
\* step-th path of frame_paths, from the first on, whose file exists; a path
\* is given here by whether its file exists, the result names the positions
\* (from 0) of the frames sent
SampledFrames(frame_paths) ==
    LET step == Max(1, Len(frame_paths) \div max_frames)
        taken == {k \in 0..(Len(frame_paths) - 1) :
                     k % step = 0 /\ frame_paths[k + 1]}
    IN [step |-> step, sent |-> taken]

\* the sort key  x.get('virality_score', 0)
SortKey(c) == IF "virality_score" \in c.has THEN c.virality_score ELSE 0

RECURSIVE InsertByScore_ties_first(_, _)
\* (variant: c goes in front of the elements whose key equals its own)
InsertByScore_ties_first(c, sorted) ==
    IF sorted = <<>> THEN <<c>>
    ELSE IF SortKey(Head(sorted)) > SortKey(c)
         THEN <<Head(sorted)>> \o InsertByScore_ties_first(c, Tail(sorted))
         ELSE <<c>> \o sorted

RECURSIVE InsertByScore(_, _)
\* insert c behind every element whose key is >= its own (the sort is stable)
InsertByScore(c, sorted) ==
    IF sorted = <<>> THEN <<c>>
    ELSE IF SortKey(Head(sorted)) >= SortKey(c)
         THEN <<Head(sorted)>> \o InsertByScore(c, Tail(sorted))
         ELSE <<c>> \o sorted

RECURSIVE SortByScore(_)
\* clips.sort(key=lambda x: x.get('virality_score', 0), reverse=True)
SortByScore(cs) ==
    IF cs = <<>> THEN <<>>
    ELSE InsertByScore(cs[Len(cs)], SortByScore(SubSeq(cs, 1, Len(cs) - 1)))

\* ai_logic.identify_viral_clips from the oracle response on: either it
\* raises, or it returns the decoded list sorted by score
identify_viral_clips(resp) ==
    IF resp.parsed
    THEN [raised |-> FALSE, clips |-> SortByScore(resp.items)]
    ELSE IF resp.text = "bad"
         THEN [raised |-> TRUE, clips |-> <<>>]     \* json.loads raises
    ELSE IF resp.text = "other_obj"
         THEN [raised |-> TRUE, clips |-> <<>>]     \* clips = data; a dict has no sort
    ELSE [raised |-> FALSE, clips |-> SortByScore(resp.items)]

\* the Clip(...) row process_video_task builds for loop index idx
Clip(idx, cand, clip_transcript) ==
    [video_id |-> VideoId,
     filename |-> idx,
     s3_key |-> <<"clips", Owner, VideoId, idx>>,
     shorts_s3_key |-> NULL,
     reason |-> IF "reason" \in cand.has THEN "r" ELSE "",
     start_time |-> cand.start,
     end_time |-> cand.end,
     virality_score |-> IF "virality_score" \in cand.has
                        THEN Some(cand.virality_score) ELSE NULL,
     hook_type |-> IF "hook_type" \in cand.has THEN Some("Humor") ELSE NULL,
     transcript_json |-> clip_transcript,
     layout_type |-> "center_crop"]

----------------------------------------------------------------------------
(* API handlers that create the Video and dispatch its job *)

NoVideo == [status |-> "NONE", task_id |-> NULL, s3_key |-> NULL]

\* an object of the bucket: its key, what was uploaded under it ("source",
\* "clip" or the conversion a shorts encode applied) and whether captions
\* are burned in
Object(key, content, captions) ==
    [key |-> key, content |-> content, captions |-> captions]

\* storage.upload_file that returned True: s3_client.upload_file stored the
\* file under s3_key, in place of any object the key had
Uploaded(s3_key, content, captions) ==
    {o \in bucket : o.key # s3_key} \cup {Object(s3_key, content, captions)}

\* upload_video, step 3: the upload of the received file to S3; a failure
\* ends the request with HTTP 500 before any row exists
upload_video_store ==
    /\ kind = "upload" /\ apc = "start"
    /\ \E upload_success \in BOOLEAN :
          /\ apc' = IF upload_success THEN "create" ELSE "rejected"
          /\ bucket' = IF upload_success
                       THEN Uploaded(<<"uploads", Owner, VideoId>>, "source", FALSE)
                       ELSE bucket
    /\ UNCHANGED <<kind, video, wpc, wresult, temp_dir, segments, response,
                   ai_suggestions, i, pending, clips, rankerInvoked,
                   indexRaised, failedAt, attempted, skipped, shortsVars, pureVars>>

\* upload_video, step 4: the Video row is committed with status PENDING
upload_video_create ==
    /\ kind = "upload" /\ apc = "create"
    /\ video' = [status |-> "PENDING", task_id |-> NULL,
                 s3_key |-> <<"uploads", Owner, VideoId>>]
    /\ apc' = "dispatch"
    /\ UNCHANGED <<kind, wpc, wresult, temp_dir, segments, response,
                   ai_suggestions, i, pending, clips, rankerInvoked,
                   indexRaised, failedAt, attempted, skipped, shortsVars, pureVars, bucket>>

\* process_youtube_url: the Video row is committed with status PENDING
process_youtube_url_create ==
    /\ kind = "youtube" /\ apc = "start"
    /\ video' = [status |-> "PENDING", task_id |-> NULL, s3_key |-> NULL]
    /\ apc' = "dispatch"
    /\ UNCHANGED <<kind, wpc, wresult, temp_dir, segments, response,
                   ai_suggestions, i, pending, clips, rankerInvoked,
                   indexRaised, failedAt, attempted, skipped, shortsVars, pureVars, bucket>>

\* both handlers: task = <task>.delay(...) puts the job on the queue
dispatch ==
    /\ apc = "dispatch" /\ wpc = "idle"
    /\ wpc' = "queued"
    /\ apc' = "update"
    /\ UNCHANGED <<kind, video, wresult, temp_dir, segments, response,
                   ai_suggestions, i, pending, clips, rankerInvoked,
                   indexRaised, failedAt, attempted, skipped, shortsVars, pureVars, bucket>>

\* both handlers: video.task_id = task.id; video.status = PROCESSING; commit.
\* The UPDATE is issued whatever the row's status has become meanwhile.
update_processing ==
    /\ apc = "update"
    /\ video' = [video EXCEPT !.task_id = Some("task"), !.status = "PROCESSING"]
    /\ apc' = "done"
    /\ UNCHANGED <<kind, wpc, wresult, temp_dir, segments, response,
                   ai_suggestions, i, pending, clips, rankerInvoked,
                   indexRaised, failedAt, attempted, skipped, shortsVars, pureVars, bucket>>

----------------------------------------------------------------------------
(* process_youtube_task *)

\* the early "Failed" return of process_youtube_task: the status is set to
\* FAILED and committed, and the task returns {"status": "Failed"}
youtube_failed(stage) ==
    /\ video' = IF video.status # "NONE"
                THEN [video EXCEPT !.status = "FAILED"] ELSE video
    /\ wresult' = "Failed"
    /\ failedAt' = stage
    /\ wpc' = "done"

\* an exception that leaves process_youtube_task: nothing catches it, so no
\* row is written
youtube_raised(stage) ==
    /\ wresult' = "raised"
    /\ failedAt' = stage
    /\ wpc' = "done"
    /\ UNCHANGED video

\* the worker takes the process_youtube job from the queue
process_youtube_task_begin ==
    /\ kind = "youtube" /\ wpc = "queued"
    /\ wpc' = "yt_download"
    /\ UNCHANGED <<kind, apc, video, wresult, temp_dir, segments, response,
                   ai_suggestions, i, pending, clips, rankerInvoked,
                   indexRaised, failedAt, attempted, skipped, shortsVars, pureVars, bucket>>

\* filename = download_youtube_video(url): a filename, None, or an exception
\* of yt_dlp, which download_youtube_video does not catch
process_youtube_task_download ==
    /\ wpc = "yt_download"
    /\ \E outcome \in {"filename", "none", "raise"} :
          CASE outcome = "filename" ->
                  /\ wpc' = "yt_upload"
                  /\ UNCHANGED <<video, wresult, failedAt>>
            [] outcome = "none" -> youtube_failed("yt_download")
            [] outcome = "raise" -> youtube_raised("yt_download")
    /\ UNCHANGED <<kind, apc, temp_dir, segments, response, ai_suggestions, i,
                   pending, clips, rankerInvoked, indexRaised, attempted,
                   skipped, shortsVars, pureVars, bucket>>

\* upload_success = upload_file(local_path, s3_key): True, False (ClientError)
\* or any other exception of the transfer, which upload_file does not catch
process_youtube_task_upload ==
    /\ wpc = "yt_upload"
    /\ \E outcome \in {"true", "false", "raise"} :
          CASE outcome = "true" ->
                  /\ wpc' = "yt_save"
                  /\ bucket' = Uploaded(<<"uploads", Owner, VideoId>>,
                                        "source", FALSE)
                  /\ UNCHANGED <<video, wresult, failedAt>>
            [] outcome = "false" -> youtube_failed("yt_upload") /\ UNCHANGED bucket
            [] outcome = "raise" -> youtube_raised("yt_upload") /\ UNCHANGED bucket
    /\ UNCHANGED <<kind, apc, temp_dir, segments, response, ai_suggestions, i,
                   pending, clips, rankerInvoked, indexRaised, attempted,
                   skipped, shortsVars, pureVars>>

\* video.s3_key = s3_key; commit; then process_video_task is called in line
process_youtube_task_save ==
    /\ wpc = "yt_save"
    /\ video' = IF video.status # "NONE"
                THEN [video EXCEPT !.s3_key = <<"uploads", Owner, VideoId>>]
                ELSE video
    /\ wpc' = "call"
    /\ UNCHANGED <<kind, apc, wresult, temp_dir, segments, response,
                   ai_suggestions, i, pending, clips, rankerInvoked,
                   indexRaised, failedAt, attempted, skipped, shortsVars, pureVars, bucket>>

----------------------------------------------------------------------------
(* process_video_task *)

\* (variant: the except block rolls the session back before it sets FAILED)
run_failed_rollback(stage) ==
    /\ video' = IF video.status # "NONE"
                THEN [video EXCEPT !.status = "FAILED"] ELSE video
    /\ clips' = clips
    /\ pending' = <<>>
    /\ wresult' = "raised"
    /\ failedAt' = stage
    /\ temp_dir' = FALSE
    /\ wpc' = "done"

\* the except and finally blocks of process_video_task: the status is set to
\* FAILED, the session is committed (with whatever Clip rows it holds), the
\* exception is re-raised and the temporary directory removed
run_failed(stage) ==
    /\ video' = IF video.status # "NONE"
                THEN [video EXCEPT !.status = "FAILED"] ELSE video
    /\ clips' = clips \o pending
    /\ pending' = <<>>
    /\ wresult' = "raised"
    /\ failedAt' = stage
    /\ temp_dir' = FALSE
    /\ wpc' = "done"

\* a stage that succeeded: the run goes on to the stage `next`
run_on(next) ==
    /\ wpc' = next
    /\ UNCHANGED <<video, clips, pending, wresult, failedAt, temp_dir>>

\* the run starts (from the queue, or called by process_youtube_task):
\* db = get_db_session(); temp_dir = tempfile.mkdtemp()
process_video_task_begin ==
    /\ \/ kind = "upload" /\ wpc = "queued"
       \/ wpc = "call"
    /\ temp_dir' = TRUE
    /\ wpc' = "download"
    /\ UNCHANGED <<kind, apc, video, wresult, segments, response,
                   ai_suggestions, i, pending, clips, rankerInvoked,
                   indexRaised, failedAt, attempted, skipped, shortsVars, pureVars, bucket>>

\* 1. download_file(s3_key, input_path): True, False (then the task raises
\* itself) or an exception
process_video_task_download ==
    /\ wpc = "download"
    /\ \E outcome \in {"true", "false", "raise"} :
          IF outcome = "true" THEN run_on("audio") ELSE run_failed("download")
    /\ UNCHANGED <<kind, apc, segments, response, ai_suggestions, i,
                   rankerInvoked, indexRaised, attempted, skipped, shortsVars, pureVars, bucket>>

\* 2. subprocess.run([ffmpeg ... audio_path], check=True)
process_video_task_audio ==
    /\ wpc = "audio"
    /\ \E ok \in BOOLEAN :
          IF ok THEN run_on("transcribe") ELSE run_failed("audio")
    /\ UNCHANGED <<kind, apc, segments, response, ai_suggestions, i,
                   rankerInvoked, indexRaised, attempted, skipped, shortsVars, pureVars, bucket>>

\* the transcription step, were its exception swallowed
process_video_task_transcribe_swallow ==
    /\ wpc = "transcribe"
    /\ \E ok \in BOOLEAN :
          IF ok
          THEN /\ \E t \in Transcripts : segments' = t
               /\ run_on("index")
               /\ UNCHANGED indexRaised
          ELSE /\ segments' = <<>>
               /\ wpc' = "index"
               /\ failedAt' = "transcribe"
               /\ UNCHANGED <<video, clips, pending, wresult, temp_dir,
                              indexRaised>>
    /\ UNCHANGED <<kind, apc, response, ai_suggestions, i, rankerInvoked,
                   attempted, skipped, shortsVars, pureVars, bucket>>

\* 3. result = model.transcribe(audio_path)
process_video_task_transcribe ==
    /\ wpc = "transcribe"
    /\ \E ok \in BOOLEAN :
          IF ok
          THEN /\ \E t \in Transcripts : segments' = t
               /\ run_on("index")
          ELSE /\ run_failed("transcribe")
               /\ UNCHANGED segments
    /\ UNCHANGED <<kind, apc, response, ai_suggestions, i, rankerInvoked,
                   indexRaised, attempted, skipped, shortsVars, pureVars, bucket>>

\* the indexing step without its try/except
process_video_task_index_fatal ==
    /\ wpc = "index"
    /\ \E ok \in BOOLEAN :
          /\ indexRaised' = ~ok
          /\ IF ok THEN run_on("rank") ELSE run_failed("index")
    /\ UNCHANGED <<kind, apc, segments, response, ai_suggestions, i,
                   rankerInvoked, attempted, skipped, shortsVars, pureVars, bucket>>

\* 4. try: index_transcript(...) except Exception: print(...)
process_video_task_index ==
    /\ wpc = "index"
    /\ \E ok \in BOOLEAN : indexRaised' = ~ok
    /\ run_on("rank")
    /\ UNCHANGED <<kind, apc, segments, response, ai_suggestions, i,
                   rankerInvoked, attempted, skipped, shortsVars, pureVars, bucket>>

\* 5. ai_suggestions = identify_viral_clips(result["segments"]): the oracle
\* call raises, or its response is decoded and sorted
process_video_task_rank ==
    /\ wpc = "rank"
    /\ rankerInvoked' = TRUE
    /\ \/ /\ response' = NoResponse            \* generate_content raises
          /\ run_failed("rank")
          /\ UNCHANGED <<ai_suggestions, i>>
       \/ \E resp \in Responses :
             LET r == identify_viral_clips(resp)
             IN /\ response' = resp
                /\ IF r.raised
                   THEN /\ run_failed("rank")
                        /\ UNCHANGED <<ai_suggestions, i>>
                   ELSE /\ ai_suggestions' = r.clips
                        /\ i' = 0
                        /\ run_on(IF r.clips = <<>> THEN "complete" ELSE "cut")
    /\ UNCHANGED <<kind, apc, segments, indexRaised, attempted, skipped,
                   shortsVars, pureVars, bucket>>

\* 6. loop body, first half: create_video_clip(input_path, local_clip_path,
\* clip['start'], clip['end']); a missing key raises KeyError before the call,
\* ffmpeg failing raises CalledProcessError (check=True)
process_video_task_cut ==
    /\ wpc = "cut"
    /\ LET clip == ai_suggestions[i + 1]
       IN IF ~({"start", "end"} \subseteq clip.has)
          THEN /\ run_failed("candidate")
               /\ UNCHANGED attempted
          ELSE /\ attempted' = attempted \cup {i}
               /\ \E ok \in BOOLEAN :
                     IF ok THEN run_on("upload") ELSE run_failed("cut")
    /\ UNCHANGED <<kind, apc, segments, response, ai_suggestions, i,
                   rankerInvoked, indexRaised, skipped, shortsVars, pureVars, bucket>>

\* where the loop goes after index i
AfterCandidate == IF i + 1 < Len(ai_suggestions) THEN "cut" ELSE "complete"

\* (variant: the Clip row is added whatever upload_file returned)
process_video_task_upload_unchecked ==
    /\ wpc = "upload"
    /\ LET clip == ai_suggestions[i + 1]
           clip_transcript ==
               extract_clip_transcript(segments, clip.start, clip.end)
       IN \E outcome \in {"true", "false", "raise"} :
             CASE outcome = "true" ->
                     /\ bucket' = Uploaded(Clip(i, clip, clip_transcript).s3_key,
                                           "clip", FALSE)
                     /\ pending' = Append(pending, Clip(i, clip, clip_transcript))
                     /\ i' = i + 1
                     /\ wpc' = AfterCandidate
                     /\ UNCHANGED <<video, clips, wresult, failedAt, temp_dir,
                                    skipped>>
               [] outcome = "false" ->
                     /\ pending' = Append(pending, Clip(i, clip, clip_transcript))
                     /\ i' = i + 1
                     /\ wpc' = AfterCandidate
                     /\ UNCHANGED <<video, clips, wresult, failedAt, temp_dir,
                                    skipped, bucket>>
               [] outcome = "raise" ->
                     /\ run_failed("upload")
                     /\ UNCHANGED <<i, skipped, bucket>>
    /\ UNCHANGED <<kind, apc, segments, response, ai_suggestions,
                   rankerInvoked, indexRaised, attempted, shortsVars, pureVars>>

\* 6. loop body, second half: upload_file(local_clip_path, clip_s3_key), then
\* db.add(Clip(...)); a False upload skips the candidate (continue)
process_video_task_upload ==
    /\ wpc = "upload"
    /\ LET clip == ai_suggestions[i + 1]
           clip_transcript ==
               extract_clip_transcript(segments, clip.start, clip.end)
       IN \E outcome \in {"true", "false", "raise"} :
             CASE outcome = "true" ->
                     /\ bucket' = Uploaded(Clip(i, clip, clip_transcript).s3_key,
                                           "clip", FALSE)
                     /\ pending' = Append(pending, Clip(i, clip, clip_transcript))
                     /\ i' = i + 1
                     /\ wpc' = AfterCandidate
                     /\ UNCHANGED <<video, clips, wresult, failedAt, temp_dir,
                                    skipped>>
               [] outcome = "false" ->
                     /\ skipped' = skipped \cup {i}
                     /\ i' = i + 1
                     /\ wpc' = AfterCandidate
                     /\ UNCHANGED <<video, clips, pending, wresult, failedAt,
                                    temp_dir, bucket>>
               [] outcome = "raise" ->
                     /\ run_failed("upload")
                     /\ UNCHANGED <<i, skipped, bucket>>
    /\ UNCHANGED <<kind, apc, segments, response, ai_suggestions,
                   rankerInvoked, indexRaised, attempted, shortsVars, pureVars>>

\* the end of the run, were a run without clips counted as a failure
process_video_task_complete_strict ==
    /\ wpc = "complete"
    /\ video' = IF video.status # "NONE"
                THEN [video EXCEPT !.status =
                        IF pending = <<>> THEN "FAILED" ELSE "COMPLETED"]
                ELSE video
    /\ clips' = clips \o pending
    /\ pending' = <<>>
    /\ wresult' = "Complete"
    /\ temp_dir' = FALSE
    /\ wpc' = "done"
    /\ UNCHANGED <<kind, apc, segments, response, ai_suggestions, i,
                   rankerInvoked, indexRaised, failedAt, attempted, skipped,
                   shortsVars, pureVars, bucket>>

\* 7. video.status = COMPLETED; db.commit(); return; finally: cleanup
process_video_task_complete ==
    /\ wpc = "complete"
    /\ video' = IF video.status # "NONE"
                THEN [video EXCEPT !.status = "COMPLETED"] ELSE video
    /\ clips' = clips \o pending
    /\ pending' = <<>>
    /\ wresult' = "Complete"
    /\ temp_dir' = FALSE
    /\ wpc' = "done"
    /\ UNCHANGED <<kind, apc, segments, response, ai_suggestions, i,
                   rankerInvoked, indexRaised, failedAt, attempted, skipped,
                   shortsVars, pureVars, bucket>>

----------------------------------------------------------------------------
(* Conversion of a clip to the 9:16 shorts format *)

\* layout_type is a free string of the request: the three documented
\* layouts and one that is none of them
Layouts == {"center_crop", "blurred", "smart", "wide"}

\* the ids of the committed Clip rows (a row's id is its position), and one
\* id that no row has
ClipIds == 1..Len(clips)
UnknownClip == 0

\* shorts_s3_key = f"shorts/{user_id}/{clip.video_id}/shorts_{layout_type}_{clip.filename}"
ShortsKey(user_id, clip, layout_type) ==
    <<"shorts", user_id, clip.video_id, layout_type, clip.filename>>

InFlight(t) == t.pc # "done"

\* what the endpoint returns for the clip of the request: the status, the
\* presigned URL (here the key it signs), the layout, and the dispatched
\* task (0 if none)
Reply(clip_id, status, url, layout_type, task) ==
    [clip_id |-> clip_id, status |-> status, shorts_download_url |-> url,
     layout_type |-> layout_type, task_id |-> task]

\* an HTTPException: nothing but the status code is returned
Denied(code) == Reply(UnknownClip, code, NULL, "", 0)

\* (variant: the cache hit also requires that no captions are asked for)
convert_clip_to_shorts_for_uncaptioned(clip_id, user_id, layout_type, enable_captions) ==
             IF clip_id \notin ClipIds
             THEN /\ replies' = Append(replies, Denied("404"))
                  /\ UNCHANGED shortsTasks
             ELSE IF ~(video.status # "NONE" /\ clips[clip_id].video_id = VideoId
                       /\ user_id = Owner)
             THEN /\ replies' = Append(replies, Denied("403"))
                  /\ UNCHANGED shortsTasks
             ELSE IF /\ clips[clip_id].shorts_s3_key # NULL
                     /\ clips[clip_id].layout_type = layout_type
                     /\ ~enable_captions
             THEN /\ replies' = Append(replies,
                        Reply(clip_id, "already_converted",
                              clips[clip_id].shorts_s3_key,
                              clips[clip_id].layout_type, 0))
                  /\ UNCHANGED shortsTasks
             ELSE /\ shortsTasks' = Append(shortsTasks,
                        [clip_id |-> clip_id, user_id |-> user_id,
                         layout_type |-> layout_type,
                         stored |-> clips[clip_id].layout_type,
                         enable_captions |-> enable_captions,
                         pc |-> "queued",
                         loaded |-> [shorts_s3_key |-> NULL, layout_type |-> ""],
                         inflight |-> {j \in 1..Len(shortsTasks) :
                              /\ InFlight(shortsTasks[j])
                              /\ shortsTasks[j].clip_id = clip_id
                              /\ shortsTasks[j].layout_type = layout_type},
                         conversion |-> "none", captions |-> FALSE,
                         temp_dir |-> FALSE, smart_dir |-> FALSE,
                         status |-> "none", shorts_s3_key |-> NULL])
                  /\ replies' = Append(replies,
                        Reply(clip_id, "processing", NULL, layout_type,
                              Len(shortsTasks) + 1))

\* convert_clip_to_shorts (POST /clips/{clip_id}/convert-shorts) for one
\* request: 404 for an unknown clip, 403 for a user who does not own the
\* parent Video, the existing artifact when the clip is already converted
\* with this layout, and a dispatched conversion task otherwise
convert_clip_to_shorts_for(clip_id, user_id, layout_type, enable_captions) ==
             IF clip_id \notin ClipIds
             THEN /\ replies' = Append(replies, Denied("404"))
                  /\ UNCHANGED shortsTasks
             ELSE IF ~(video.status # "NONE" /\ clips[clip_id].video_id = VideoId
                       /\ user_id = Owner)
             THEN /\ replies' = Append(replies, Denied("403"))
                  /\ UNCHANGED shortsTasks
             ELSE IF /\ clips[clip_id].shorts_s3_key # NULL
                     /\ clips[clip_id].layout_type = layout_type
             THEN /\ replies' = Append(replies,
                        Reply(clip_id, "already_converted",
                              clips[clip_id].shorts_s3_key,
                              clips[clip_id].layout_type, 0))
                  /\ UNCHANGED shortsTasks
             ELSE /\ shortsTasks' = Append(shortsTasks,
                        [clip_id |-> clip_id, user_id |-> user_id,
                         layout_type |-> layout_type,
                         stored |-> clips[clip_id].layout_type,
                         enable_captions |-> enable_captions,
                         pc |-> "queued",
                         loaded |-> [shorts_s3_key |-> NULL, layout_type |-> ""],
                         inflight |-> {j \in 1..Len(shortsTasks) :
                              /\ InFlight(shortsTasks[j])
                              /\ shortsTasks[j].clip_id = clip_id
                              /\ shortsTasks[j].layout_type = layout_type},
                         conversion |-> "none", captions |-> FALSE,
                         temp_dir |-> FALSE, smart_dir |-> FALSE,
                         status |-> "none", shorts_s3_key |-> NULL])
                  /\ replies' = Append(replies,
                        Reply(clip_id, "processing", NULL, layout_type,
                              Len(shortsTasks) + 1))

\* the endpoint, for any request
convert_clip_to_shorts ==
    /\ Len(replies) < MaxRequests
    /\ \E clip_id \in ClipIds \cup {UnknownClip}, user_id \in Users,
          layout_type \in Layouts, enable_captions \in BOOLEAN :
             convert_clip_to_shorts_for(clip_id, user_id, layout_type,
                                        enable_captions)
    /\ UNCHANGED <<pureVars, bucket, pipelineVars, clips>>

\* (variant: the ownership of the parent Video is not checked)
get_clip_download_url_for_anyone(clip_id, user_id) ==
    IF clip_id \notin ClipIds
    THEN replies' = Append(replies, Denied("404"))
    ELSE IF clips[clip_id].s3_key = NULL
    THEN replies' = Append(replies, Denied("404"))
    ELSE \E url \in {Some(clips[clip_id].s3_key), NULL} :
            replies' = Append(replies,
                IF url = NULL THEN Denied("500")
                ELSE Reply(clip_id, "download_url", url[1], "", 0))

\* get_clip_download_url (GET /clips/{clip_id}/download) for one request:
\* 404 for an unknown clip, 403 for a user who does not own the parent
\* Video, 404 for a clip without s3_key, 500 when get_presigned_url returns
\* None, and else the presigned URL (here the key it signs) of the clip
get_clip_download_url_for(clip_id, user_id) ==
    IF clip_id \notin ClipIds
    THEN replies' = Append(replies, Denied("404"))
    ELSE IF ~(video.status # "NONE" /\ clips[clip_id].video_id = VideoId
              /\ user_id = Owner)
    THEN replies' = Append(replies, Denied("403"))
    ELSE IF clips[clip_id].s3_key = NULL
    THEN replies' = Append(replies, Denied("404"))
    ELSE \E url \in {Some(clips[clip_id].s3_key), NULL} :
            replies' = Append(replies,
                IF url = NULL THEN Denied("500")
                ELSE Reply(clip_id, "download_url", url[1], "", 0))

\* the endpoint, for any request
get_clip_download_url ==
    /\ Len(replies) < MaxRequests
    /\ \E clip_id \in ClipIds \cup {UnknownClip}, user_id \in Users :
          get_clip_download_url_for(clip_id, user_id)
    /\ UNCHANGED <<pureVars, bucket, pipelineVars, clips, shortsTasks>>

\* get_clip_shorts_url (GET /clips/{clip_id}/shorts) for one request: 404
\* for an unknown clip, 403 for a user who does not own the parent Video,
\* "not_converted" for a clip without shorts_s3_key, and else "ready" with
\* what get_presigned_url returns (the key it signs, or None)
get_clip_shorts_url_for(clip_id, user_id) ==
    IF clip_id \notin ClipIds
    THEN replies' = Append(replies, Denied("404"))
    ELSE IF ~(video.status # "NONE" /\ clips[clip_id].video_id = VideoId
              /\ user_id = Owner)
    THEN replies' = Append(replies, Denied("403"))
    ELSE IF clips[clip_id].shorts_s3_key = NULL
    THEN replies' = Append(replies, Reply(clip_id, "not_converted", NULL, "", 0))
    ELSE \E url \in {clips[clip_id].shorts_s3_key, NULL} :
            replies' = Append(replies, Reply(clip_id, "ready", url, "", 0))

\* the endpoint, for any request
get_clip_shorts_url ==
    /\ Len(replies) < MaxRequests
    /\ \E clip_id \in ClipIds \cup {UnknownClip}, user_id \in Users :
          get_clip_shorts_url_for(clip_id, user_id)
    /\ UNCHANGED <<pureVars, bucket, pipelineVars, clips, shortsTasks>>

\* (variant: a "Failed" return that skips the finally blocks)
task_failed_no_cleanup(t) == [t EXCEPT !.pc = "done", !.status = "Failed"]

\* a return {"status": "Failed", ...} of the task (also from its except
\* block); the finally blocks of the task and of convert_to_shorts_smart
\* remove their temporary directories
task_failed(t) == [t EXCEPT !.pc = "done", !.status = "Failed",
                            !.temp_dir = FALSE, !.smart_dir = FALSE]

\* the task starts: temp_dir = tempfile.mkdtemp(); clip =
\* db.query(Clip)...first(); a clip that is missing or has no s3_key ends it
convert_clip_to_shorts_task_begin ==
    /\ \E n \in 1..Len(shortsTasks) :
          LET t == [shortsTasks[n] EXCEPT !.temp_dir = TRUE]
          IN /\ t.pc = "queued"
             /\ shortsTasks' = [shortsTasks EXCEPT ![n] =
                   IF t.clip_id \notin ClipIds \/ clips[t.clip_id].s3_key = NULL
                   THEN task_failed(t)
                   ELSE [t EXCEPT !.pc = "download",
                           !.loaded = [shorts_s3_key |-> clips[t.clip_id].shorts_s3_key,
                                       layout_type |-> clips[t.clip_id].layout_type]]]
    /\ UNCHANGED <<pureVars, bucket, pipelineVars, clips, replies>>

\* download_file(clip.s3_key, local_input): True, False or an exception
convert_clip_to_shorts_task_download ==
    /\ \E n \in 1..Len(shortsTasks) :
          LET t == shortsTasks[n]
          IN /\ t.pc = "download"
             /\ \E outcome \in {"true", "false", "raise"} :
                   shortsTasks' = [shortsTasks EXCEPT ![n] =
                       IF outcome = "true" THEN [t EXCEPT !.pc = "convert"]
                       ELSE task_failed(t)]
    /\ UNCHANGED <<pureVars, bucket, pipelineVars, clips, replies>>

\* utils.convert_to_shorts_with_layout: which conversion a layout selects
\* ("tracked" tells whether the smart conversion found a subject)
ConversionFor(layout_type, tracked) ==
    IF layout_type = "blurred" THEN "blurred"
    ELSE IF layout_type = "smart"
         THEN (IF tracked THEN "smart" ELSE "center_crop")
    ELSE "center_crop"

\* the caption track (if enabled and the clip has a transcript) and
\* convert_to_shorts_with_layout(...): something raises, the encode of a
\* blurred or centre-cropped layout runs (with the captions burned in), or
\* convert_to_shorts_smart is entered and makes its own temporary directory
convert_clip_to_shorts_task_convert ==
    /\ \E n \in 1..Len(shortsTasks) :
          LET t == shortsTasks[n]
              captions == t.enable_captions
                          /\ clips[t.clip_id].transcript_json # NULL
          IN /\ t.pc = "convert"
             /\ \/ shortsTasks' = [shortsTasks EXCEPT ![n] = task_failed(t)]
                \/ shortsTasks' = [shortsTasks EXCEPT ![n] =
                      IF t.layout_type = "smart"
                      THEN [t EXCEPT !.pc = "smart", !.smart_dir = TRUE,
                                     !.captions = captions]
                      ELSE [t EXCEPT !.pc = "upload",
                               !.conversion = ConversionFor(t.layout_type, TRUE),
                               !.captions = captions]]
    /\ UNCHANGED <<pureVars, bucket, pipelineVars, clips, replies>>

\* face_tracking.convert_to_shorts_smart after its mkdtemp: the frames are
\* extracted and searched for faces; it returns the tracked crop, returns the
\* centre crop when there is no frame or no face, or raises; its finally
\* block removes its temporary directory.  Then the captions are burned in,
\* which can raise as well.
convert_to_shorts_smart ==
    /\ \E n \in 1..Len(shortsTasks) :
          LET t == shortsTasks[n]
          IN /\ t.pc = "smart"
             /\ \/ shortsTasks' = [shortsTasks EXCEPT ![n] = task_failed(t)]
                \/ \E tracked \in BOOLEAN :
                      shortsTasks' = [shortsTasks EXCEPT ![n] =
                          [t EXCEPT !.pc = "upload", !.smart_dir = FALSE,
                             !.conversion = ConversionFor(t.layout_type, tracked)]]
    /\ UNCHANGED <<pureVars, bucket, pipelineVars, clips, replies>>

\* the row after the task's commit: the session writes the columns whose
\* new value differs from the value it loaded
Committed(row, loaded, shorts_s3_key, layout_type) ==
    [row EXCEPT
        !.shorts_s3_key = IF shorts_s3_key # loaded.shorts_s3_key
                          THEN shorts_s3_key ELSE @,
        !.layout_type = IF layout_type # loaded.layout_type
                        THEN layout_type ELSE @]

\* (variant: the row is committed before the outcome of the upload is known)
convert_clip_to_shorts_task_upload_commit_first ==
    /\ \E n \in 1..Len(shortsTasks) :
          LET t == shortsTasks[n]
              shorts_s3_key == ShortsKey(t.user_id, clips[t.clip_id], t.layout_type)
          IN /\ t.pc = "upload"
             /\ clips' = [clips EXCEPT ![t.clip_id] =
                    Committed(@, t.loaded, shorts_s3_key, t.layout_type)]
             /\ \E outcome \in {"true", "false", "raise"} :
                   /\ shortsTasks' = [shortsTasks EXCEPT ![n] =
                          IF outcome = "true"
                          THEN [t EXCEPT !.pc = "done", !.status = "Complete",
                                         !.temp_dir = FALSE,
                                         !.shorts_s3_key = shorts_s3_key]
                          ELSE task_failed(t)]
                   /\ bucket' = IF outcome = "true"
                                THEN Uploaded(shorts_s3_key, t.conversion, t.captions)
                                ELSE bucket
    /\ UNCHANGED <<pureVars, pipelineVars, replies>>

\* upload_file(local_output, shorts_s3_key); then clip.shorts_s3_key and
\* clip.layout_type are set and committed
convert_clip_to_shorts_task_upload ==
    /\ \E n \in 1..Len(shortsTasks) :
          LET t == shortsTasks[n]
              shorts_s3_key == ShortsKey(t.user_id, clips[t.clip_id], t.layout_type)
          IN /\ t.pc = "upload"
             /\ \E outcome \in {"true", "false", "raise"} :
                   IF outcome = "true"
                   THEN /\ bucket' = Uploaded(shorts_s3_key, t.conversion,
                                              t.captions)
                        /\ clips' = [clips EXCEPT ![t.clip_id] =
                               Committed(@, t.loaded, shorts_s3_key, t.layout_type)]
                        /\ shortsTasks' = [shortsTasks EXCEPT ![n] =
                               [t EXCEPT !.pc = "done", !.status = "Complete",
                                         !.temp_dir = FALSE,
                                         !.shorts_s3_key = shorts_s3_key]]
                   ELSE /\ shortsTasks' = [shortsTasks EXCEPT ![n] = task_failed(t)]
                        /\ UNCHANGED <<clips, bucket>>
    /\ UNCHANGED <<pureVars, pipelineVars, replies>>

----------------------------------------------------------------------------
(* Specifications *)

\* the pipeline of one Video, from the request that creates it
Init ==
    /\ kind \in {"upload", "youtube"}
    /\ apc = "start"
    /\ video = NoVideo
    /\ wpc = "idle"
    /\ wresult = "none"
    /\ temp_dir = FALSE
    /\ segments = <<>>
    /\ response = NoResponse
    /\ ai_suggestions = <<>>
    /\ i = 0
    /\ pending = <<>>
    /\ clips = <<>>
    /\ rankerInvoked = FALSE
    /\ indexRaised = FALSE
    /\ failedAt = "none"
    /\ attempted = {}
    /\ skipped = {}
    /\ shortsTasks = <<>>
    /\ replies = <<>>
    /\ bucket = {}
    /\ call = NoCall

Next ==
    \/ upload_video_store
    \/ upload_video_create
    \/ process_youtube_url_create
    \/ dispatch
    \/ update_processing
    \/ process_youtube_task_begin
    \/ process_youtube_task_download
    \/ process_youtube_task_upload
    \/ process_youtube_task_save
    \/ process_video_task_begin
    \/ process_video_task_download
    \/ process_video_task_audio
    \/ process_video_task_transcribe
    \/ process_video_task_index
    \/ process_video_task_rank
    \/ process_video_task_cut
    \/ process_video_task_upload
    \/ process_video_task_complete

Spec == Init /\ [][Next]_vars

\* the transcript and the oracle response of the run that produced the
\* clips the conversions start from
RunTranscript == <<Seg(Sec(0), Sec(5)), Seg(Sec(5), Sec(35)), Seg(Sec(35), Sec(40))>>
RunResponse == [parsed |-> TRUE, text |-> "clips_obj",
                items |-> <<Cand(Sec(0), Sec(25), 80, Fields),
                            Cand(Sec(30), Sec(55), 90, Fields)>>]
RunSuggestions == identify_viral_clips(RunResponse).clips

\* the objects that run left in the bucket: the source and the two clips
RunObjects == {Object(<<"uploads", Owner, VideoId>>, "source", FALSE),
               Object(<<"clips", Owner, VideoId, 0>>, "clip", FALSE),
               Object(<<"clips", Owner, VideoId, 1>>, "clip", FALSE)}

\* the state after an uploaded Video was processed into two Clips
ShortsInit ==
    /\ kind = "upload"
    /\ apc = "done"
    /\ video = [status |-> "COMPLETED", task_id |-> Some("task"),
                s3_key |-> <<"uploads", Owner, VideoId>>]
    /\ wpc = "done"
    /\ wresult = "Complete"
    /\ temp_dir = FALSE
    /\ segments = RunTranscript
    /\ response = RunResponse
    /\ ai_suggestions = RunSuggestions
    /\ i = 2
    /\ pending = <<>>
    /\ clips = [n \in 1..2 |->
                  Clip(n - 1, RunSuggestions[n],
                       extract_clip_transcript(RunTranscript,
                           RunSuggestions[n].start, RunSuggestions[n].end))]
    /\ rankerInvoked = TRUE
    /\ indexRaised = FALSE
    /\ failedAt = "none"
    /\ attempted = {0, 1}
    /\ skipped = {}
    /\ shortsTasks = <<>>
    /\ replies = <<>>
    /\ bucket = RunObjects
    /\ call = NoCall

ShortsNext ==
    \/ convert_clip_to_shorts
    \/ convert_clip_to_shorts_task_begin
    \/ convert_clip_to_shorts_task_download
    \/ convert_clip_to_shorts_task_convert
    \/ convert_to_shorts_smart
    \/ convert_clip_to_shorts_task_upload

ShortsSpec == ShortsInit /\ [][ShortsNext]_vars

\* the conversions and the two endpoints that hand out URLs
AccessNext ==
    \/ ShortsNext
    \/ get_clip_download_url
    \/ get_clip_shorts_url

AccessSpec == ShortsInit /\ [][AccessNext]_vars

\* the run ShortsInit starts after has ended
RunDone ==
    /\ kind = "upload"
    /\ apc = "done"
    /\ video = [status |-> "COMPLETED", task_id |-> Some("task"),
                s3_key |-> <<"uploads", Owner, VideoId>>]
    /\ wpc = "done"
    /\ wresult = "Complete"
    /\ segments = RunTranscript
    /\ response = RunResponse
    /\ indexRaised = FALSE
    /\ skipped = {}
    /\ Len(clips) = 2

\* the pipeline of one Video, and the conversions of its clips once the run
\* of ShortsInit has ended
LifecycleNext ==
    \/ Next
    \/ RunDone /\ ShortsNext

LifecycleSpec == Init /\ [][LifecycleNext]_vars

\* the rows a clip can have after earlier conversions: converted with one
\* layout, or left by a center_crop and a blurred conversion that raced
ConvertedRows(clip) ==
    {[clip EXCEPT !.shorts_s3_key = ShortsKey(Owner, clip, "blurred"),
                  !.layout_type = "blurred"],
     [clip EXCEPT !.shorts_s3_key = ShortsKey(Owner, clip, "center_crop"),
                  !.layout_type = "blurred"]}

\* the artifacts those conversions (requested without captions, the
\* default) uploaded: one of the layout the row names and one of the layout
\* its key names
ConvertedObjects(row) ==
    {Object(ShortsKey(Owner, row, layout_type), layout_type, FALSE) :
        layout_type \in {row.layout_type, row.shorts_s3_key[4]}}

\* as ShortsInit, when the first clip was converted before
ReconvertInit ==
    /\ kind = "upload"
    /\ apc = "done"
    /\ video = [status |-> "COMPLETED", task_id |-> Some("task"),
                s3_key |-> <<"uploads", Owner, VideoId>>]
    /\ wpc = "done"
    /\ wresult = "Complete"
    /\ temp_dir = FALSE
    /\ segments = RunTranscript
    /\ response = RunResponse
    /\ ai_suggestions = RunSuggestions
    /\ i = 2
    /\ pending = <<>>
    /\ \E row \in ConvertedRows(Clip(0, RunSuggestions[1],
                     extract_clip_transcript(RunTranscript,
                         RunSuggestions[1].start, RunSuggestions[1].end))) :
          /\ clips = <<row, Clip(1, RunSuggestions[2],
                          extract_clip_transcript(RunTranscript,
                              RunSuggestions[2].start, RunSuggestions[2].end))>>
          /\ bucket = RunObjects \cup ConvertedObjects(row)
    /\ rankerInvoked = TRUE
    /\ indexRaised = FALSE
    /\ failedAt = "none"
    /\ attempted = {0, 1}
    /\ skipped = {}
    /\ shortsTasks = <<>>
    /\ replies = <<>>
    /\ call = NoCall

ReconvertSpec == ReconvertInit /\ [][ShortsNext]_vars

\* as ReconvertInit, when that conversion was the only one: the row's key is
\* the key of the layout it names
ConvertedOnceInit ==
    /\ ReconvertInit
    /\ clips[1].shorts_s3_key = ShortsKey(Owner, clips[1], clips[1].layout_type)

ConvertedOnceSpec == ConvertedOnceInit /\ [][ShortsNext]_vars

\* the rows ReconvertInit starts from are rows the conversions leave behind
ReconvertInitReached ==
    ~(/\ \A n \in 1..Len(shortsTasks) : ~InFlight(shortsTasks[n])
      /\ clips[1].shorts_s3_key = ShortsKey(Owner, clips[1], "center_crop")
      /\ clips[1].layout_type = "blurred")

\* extract_clip_transcript called on its own.  The segment boundaries
\* include times a fraction of a millisecond off the window's start, the
\* windows one whose length is not a whole number of milliseconds.
SegTimes == {Sec(0), Sec(5), Sec(10) - 4, Sec(10), Sec(10) + 4, Sec(32),
             Sec(35), Sec(40)}
ReanchorSegs == {g \in {Seg(a, b) : a, b \in SegTimes} : g.start < g.end}
ReanchorTranscripts == SeqsUpTo(ReanchorSegs, MaxSegs) \cup {RunTranscript}
ReanchorWindows == {<<Sec(10), Sec(32)>>, <<Sec(10), Sec(30) - 4>>,
                    <<Sec(0), Sec(10)>>}

ReanchorInit ==
    /\ kind = "upload"
    /\ apc = "start"
    /\ video = NoVideo
    /\ wpc = "idle"
    /\ wresult = "none"
    /\ temp_dir = FALSE
    /\ segments = <<>>
    /\ response = NoResponse
    /\ ai_suggestions = <<>>
    /\ i = 0
    /\ pending = <<>>
    /\ clips = <<>>
    /\ rankerInvoked = FALSE
    /\ indexRaised = FALSE
    /\ failedAt = "none"
    /\ attempted = {}
    /\ skipped = {}
    /\ shortsTasks = <<>>
    /\ replies = <<>>
    /\ bucket = {}
    /\ \E segs \in ReanchorTranscripts, w \in ReanchorWindows :
          call = [fn |-> "extract_clip_transcript",
                  args |-> <<segs, w[1], w[2]>>,
                  returned |-> FALSE, result |-> <<>>]

\* the call returns its list of cues
extract_clip_transcript_call ==
    /\ call.fn = "extract_clip_transcript" /\ ~call.returned
    /\ call' = [call EXCEPT
                   !.returned = TRUE,
                   !.result = extract_clip_transcript(call.args[1],
                                  call.args[2], call.args[3])]
    /\ UNCHANGED <<pipelineVars, clips, shortsVars, bucket>>

ReanchorNext == extract_clip_transcript_call

ReanchorSpec == ReanchorInit /\ [][ReanchorNext]_vars

\* nothing but a function called on its own is going on
Idle ==
    /\ kind = "upload"
    /\ apc = "start"
    /\ video = NoVideo
    /\ wpc = "idle"
    /\ wresult = "none"
    /\ temp_dir = FALSE
    /\ segments = <<>>
    /\ response = NoResponse
    /\ ai_suggestions = <<>>
    /\ i = 0
    /\ pending = <<>>
    /\ clips = <<>>
    /\ rankerInvoked = FALSE
    /\ indexRaised = FALSE
    /\ failedAt = "none"
    /\ attempted = {}
    /\ skipped = {}
    /\ shortsTasks = <<>>
    /\ replies = <<>>
    /\ bucket = {}

\* a call that has not returned yet
Called(fn, args) ==
    [fn |-> fn, args |-> args, returned |-> FALSE, result |-> <<>>]

\* the crop computations called on their own: small sources of every shape,
\* the usual video sizes, and trajectories of positions in the middle and on
\* the borders of the frame
SourceSizes == ((1..MaxDim) \X (1..MaxDim))
                   \cup {<<1920, 1080>>, <<1080, 1920>>, <<1280, 720>>, <<640, 480>>}
FramePositions == {<<x, y>> : x, y \in {Rat(0, 1), Rat(1, 2), Rat(1, 1)}}
Trajectories == SeqsUpTo(FramePositions, MaxTraj)

CropInit ==
    /\ Idle
    /\ \/ \E size \in SourceSizes : call = Called("convert_to_shorts", size)
       \/ \E size \in SourceSizes, positions \in Trajectories :
             call = Called("generate_crop_filter",
                           <<positions, size[1], size[2]>>)

\* convert_to_shorts computes its crop for the probed dimensions
convert_to_shorts_call ==
    /\ call.fn = "convert_to_shorts" /\ ~call.returned
    /\ call' = [call EXCEPT
                   !.returned = TRUE,
                   !.result = convert_to_shorts(call.args[1], call.args[2])]
    /\ UNCHANGED <<pipelineVars, clips, shortsVars, bucket>>

\* generate_crop_filter computes its crop for a trajectory
generate_crop_filter_call ==
    /\ call.fn = "generate_crop_filter" /\ ~call.returned
    /\ call' = [call EXCEPT
                   !.returned = TRUE,
                   !.result = generate_crop_filter(call.args[1], call.args[2],
                                                   call.args[3])]
    /\ UNCHANGED <<pipelineVars, clips, shortsVars, bucket>>

CropNext ==
    \/ convert_to_shorts_call
    \/ generate_crop_filter_call

CropSpec == CropInit /\ [][CropNext]_vars

\* smooth_positions on its own: detection sequences in which a frame has no
\* detection or one of two boxes (centre x, centre y, width, height)
Detections == {NULL,
               <<Rat(1, 4), Rat(3, 4), Rat(1, 4), Rat(1, 4)>>,
               <<Rat(1, 1), Rat(0, 1), Rat(1, 4), Rat(1, 4)>>}
WindowSizes == {1, 2, 3, 5}

SmoothInit ==
    /\ Idle
    /\ \E positions \in SeqsUpTo(Detections, MaxDetections),
          window_size \in WindowSizes :
             call = Called("smooth_positions", <<positions, window_size>>)

\* smooth_positions returns the smoothed centre positions
smooth_positions_call ==
    /\ call.fn = "smooth_positions" /\ ~call.returned
    /\ call' = [call EXCEPT
                   !.returned = TRUE,
                   !.result = smooth_positions(call.args[1], call.args[2])]
    /\ UNCHANGED <<pipelineVars, clips, shortsVars, bucket>>

SmoothNext == smooth_positions_call

SmoothSpec == SmoothInit /\ [][SmoothNext]_vars

\* the frame sampling of identify_viral_clips_multimodal on its own: any
\* number of frame paths, of which at most one has no file
FramePathLists ==
    {[k \in 1..n |-> k # gone] : n \in 0..MaxFramePaths, gone \in 0..MaxFramePaths}

FramesInit ==
    /\ Idle
    /\ \E frame_paths \in FramePathLists :
          call = Called("identify_viral_clips_multimodal", <<frame_paths>>)

\* the request to the oracle is built
identify_viral_clips_multimodal_call ==
    /\ call.fn = "identify_viral_clips_multimodal" /\ ~call.returned
    /\ call' = [call EXCEPT !.returned = TRUE,
                            !.result = SampledFrames(call.args[1])]
    /\ UNCHANGED <<pipelineVars, clips, shortsVars, bucket>>

FramesNext == identify_viral_clips_multimodal_call

FramesSpec == FramesInit /\ [][FramesNext]_vars

\* the state ShortsInit starts from is one the pipeline reaches
ShortsInitReached ==
    ~(/\ apc = "done" /\ wpc = "done" /\ video.status = "COMPLETED"
      /\ segments = RunTranscript /\ response = RunResponse
      /\ indexRaised = FALSE /\ skipped = {} /\ Len(clips) = 2)

----------------------------------------------------------------------------
(* Claims about the pipeline (checked under Spec) *)

\* the stages of process_video_task
PvtStages == {"download", "audio", "transcribe", "index", "rank", "cut",
              "upload", "complete"}

\* the stages at which the source media is acquired
AcquisitionStages == {"download", "yt_download", "yt_upload"}

\* the loop indices of the candidates the ranker returned
AllIndices == 0..(Len(ai_suggestions) - 1)

\* C1: a failed cut or a failed upload of one candidate only skips that
\* candidate: once the run has ended, every candidate was attempted and the
\* run completed
C1_CandidateFailureSkipped ==
    (wpc = "done" /\ (skipped # {} \/ failedAt \in {"cut", "upload"}))
        => (wresult = "Complete" /\ attempted = AllIndices)

\* C2: once the persisted status is COMPLETED or FAILED no step changes it
C2_TerminalStatusStable ==
    [][video.status \in Terminal => video'.status = video.status]_vars

\* C3: when the handler and the dispatched job have both run to their end,
\* the persisted status is COMPLETED or FAILED
C3_DispatchedEndsTerminal ==
    (apc = "done" /\ wpc = "done") => video.status \in Terminal

\* C4: the step in which the acquisition of the source fails writes status
\* FAILED, and no Clip row exists
C4_AcquisitionFailureFails ==
    [][(failedAt = "none" /\ failedAt' \in AcquisitionStages)
          => (video'.status = "FAILED" /\ clips' = <<>>)]_vars

\* C5: the step in which audio extraction or transcription fails writes
\* status FAILED, and a run that failed there has ended without invoking the
\* ranker and without any Clip row
C5_TranscriptionFailureFatal ==
    /\ [](failedAt \in {"audio", "transcribe"}
            => (wpc = "done" /\ ~rankerInvoked /\ clips = <<>> /\ pending = <<>>))
    /\ [][(failedAt = "none" /\ failedAt' \in {"audio", "transcribe"})
            => video'.status = "FAILED"]_vars

C5_Witness ==
    /\ failedAt = "transcribe" /\ wpc = "done"
    /\ video.status = "FAILED" /\ ~rankerInvoked /\ clips = <<>>

RECURSIVE ClipsOf(_, _, _)
\* the Clip rows of the candidates cs (the first has loop index idx) that
\* were not skipped
ClipsOf(cs, idx, skip) ==
    IF cs = <<>> THEN <<>>
    ELSE (IF idx \in skip THEN <<>>
          ELSE <<Clip(idx, Head(cs),
                      extract_clip_transcript(segments, Head(cs).start,
                                              Head(cs).end))>>)
         \o ClipsOf(Tail(cs), idx + 1, skip)

\* C6: a run whose indexing raised goes on to the ranker, and its result is
\* the one the other stages determine: if none of them failed, the run
\* completes with the Clip rows of all candidates whose upload succeeded
C6_IndexingFailureNonFatal ==
    (wpc = "done" /\ (indexRaised \/ rankerInvoked))
        => /\ rankerInvoked
           /\ failedAt # "index"
           /\ failedAt = "none"
                => /\ wresult = "Complete"
                   /\ attempted = AllIndices
                   /\ clips = ClipsOf(ai_suggestions, 0, skipped)

C6_Witness ==
    /\ indexRaised /\ wpc = "done" /\ rankerInvoked
    /\ wresult = "Complete" /\ Len(clips) = 2

\* C7: the step that ends a run of process_video_task writes COMPLETED if no
\* stage raised (with no Clip row if the ranker returned no candidate), and
\* FAILED if any stage raised
C7_CompletedUnlessRaised ==
    [][(wpc \in PvtStages /\ wpc' = "done")
          => IF failedAt' = "none"
             THEN /\ video'.status = "COMPLETED"
                  /\ ai_suggestions' = <<>> => clips' = <<>>
             ELSE video'.status = "FAILED"]_vars

C7_Witness ==
    /\ wpc = "done" /\ rankerInvoked /\ failedAt = "none"
    /\ ai_suggestions = <<>> /\ video.status = "COMPLETED" /\ clips = <<>>

\* a response that does not decode into {clips: [{start, end, reason,
\* virality_score, hook_type}]}
Malformed(resp) ==
    /\ ~resp.parsed
    /\ \/ resp.text \in {"bad", "other_obj", "list"}
       \/ \E k \in 1..Len(resp.items) : resp.items[k].has # Fields

\* C8: a malformed oracle response fails the ranking step, and no Clip row
\* comes from it
C8_MalformedResponseFatal ==
    (rankerInvoked /\ response # NoResponse /\ Malformed(response))
        => (failedAt = "rank" /\ pending = <<>> /\ clips = <<>>)

----------------------------------------------------------------------------
(* Claims about the conversion to shorts (checked under ShortsSpec) *)

Accepted(r) == r.status \in {"processing", "already_converted"}

\* the artifact locator a request yields: the existing one, or the one its
\* conversion task returns
LocatorOf(r) ==
    IF r.status = "already_converted" THEN r.shorts_download_url
    ELSE shortsTasks[r.task_id].shorts_s3_key

Encoded == {n \in 1..Len(shortsTasks) : shortsTasks[n].conversion # "none"}

\* C9: when the first two requests are for the same clip and layout and every
\* conversion has completed, both yield the same locator and one encode ran
C9_ReformatIdempotent ==
    (/\ Len(replies) = 2
     /\ Accepted(replies[1]) /\ Accepted(replies[2])
     /\ replies[1].clip_id = replies[2].clip_id
     /\ replies[1].layout_type = replies[2].layout_type
     /\ \A n \in 1..Len(shortsTasks) : shortsTasks[n].status = "Complete")
        => /\ LocatorOf(replies[1]) = LocatorOf(replies[2])
           /\ Cardinality(Encoded) = 1

\* C10: of two conversions of the same clip and layout of which the second
\* was dispatched while the first was in flight, at most one performs the
\* encode, upload and commit
C10_AtMostOneConcurrentReformat ==
    \A k \in 1..Len(shortsTasks) : \A j \in shortsTasks[k].inflight :
        ~(shortsTasks[j].status = "Complete" /\ shortsTasks[k].status = "Complete")

\* the tasks that uploaded an artifact under key k
ProducersOf(k) ==
    {n \in 1..Len(shortsTasks) :
        shortsTasks[n].status = "Complete" /\ shortsTasks[n].shorts_s3_key = k}

\* C11: every Clip whose shorts locator is set stores the layout_type with
\* which the artifact at that locator was produced, also after concurrent
\* conversions of the clip with different layouts committed in any order
\* (the locator and the layout are written together).
C11_LayoutMatchesLocator ==
    \A c \in ClipIds :
        clips[c].shorts_s3_key # NULL =>
            \A n \in ProducersOf(clips[c].shorts_s3_key) :
                shortsTasks[n].layout_type = clips[c].layout_type

\* C12: a conversion task that fails (clip missing or without media locator,
\* download, encode or upload failing) changes no persisted field - the
\* clip's shorts locator and layout_type, every other Clip and the parent
\* Video stay as they were - and ends with the result "Failed"; a task that
\* has failed never writes afterwards.
C12_FailedTaskWritesNothing ==
    [][\A n \in 1..Len(shortsTasks) :
          /\ (shortsTasks[n].status = "none" /\ shortsTasks'[n].status = "Failed")
                => /\ clips' = clips /\ video' = video
                   /\ shortsTasks'[n].pc = "done"
                   /\ shortsTasks'[n].shorts_s3_key = NULL
          /\ (shortsTasks[n].pc # "done" /\ shortsTasks'[n].pc = "done")
                => shortsTasks'[n].status \in {"Complete", "Failed"}
          /\ shortsTasks[n].status = "Failed" => shortsTasks'[n] = shortsTasks[n]
      ]_vars

\* a task failed at the upload, after its encode ran, and the row of its
\* clip still carries the locator and layout another task committed
C12_Witness ==
    \E n \in 1..Len(shortsTasks) :
        LET t == shortsTasks[n]
        IN /\ t.status = "Failed" /\ t.conversion # "none"
           /\ clips[t.clip_id].shorts_s3_key # NULL
           /\ clips[t.clip_id].layout_type # t.layout_type

\* C13: a request whose layout differs from the clip's stored layout_type is
\* never answered from the cache: it dispatches a new conversion, and when
\* that conversion succeeds the stored locator refers to an artifact that
\* was produced with the requested layout.
C13_DifferentLayoutReconverts ==
    [][/\ (Len(replies') > Len(replies)
           /\ replies'[Len(replies')].clip_id \in ClipIds
           /\ replies'[Len(replies')].layout_type
                 # clips[replies'[Len(replies')].clip_id].layout_type)
              => /\ replies'[Len(replies')].status = "processing"
                 /\ Len(shortsTasks') = Len(shortsTasks) + 1
       /\ \A n \in 1..Len(shortsTasks) :
             (/\ shortsTasks[n].status = "none"
              /\ shortsTasks'[n].status = "Complete"
              /\ shortsTasks[n].stored # shortsTasks[n].layout_type)
                => clips'[shortsTasks[n].clip_id].shorts_s3_key
                      = ShortsKey(shortsTasks[n].user_id,
                                  clips[shortsTasks[n].clip_id],
                                  shortsTasks[n].layout_type)
      ]_vars

\* C14: when the smart conversion finds no subject and falls back to the
\* center crop, the fallback is observable: neither the layout the task
\* reports nor the layout stored with the locator presents the center-cropped
\* artifact as "smart".
C14_FallbackObservable ==
    /\ \A n \in 1..Len(shortsTasks) :
          (shortsTasks[n].status = "Complete" /\ shortsTasks[n].conversion # "smart")
              => shortsTasks[n].layout_type # "smart"
    /\ \A c \in ClipIds :
          (clips[c].shorts_s3_key # NULL /\ clips[c].layout_type = "smart")
              => \A n \in ProducersOf(clips[c].shorts_s3_key) :
                    shortsTasks[n].conversion = "smart"

----------------------------------------------------------------------------
(* Claims about the ranker's result (checked under Spec, where            *)
(* process_video_task_rank applies identify_viral_clips to every response) *)

\* the positions of the returned list
Returned == 1..Len(ai_suggestions)

C16_ScoreClamped ==
    /\ \A a \in Returned :
          /\ "virality_score" \in ai_suggestions[a].has
          /\ ai_suggestions[a].virality_score \in 0..100
    /\ \A c \in 1..Len(clips) :
          /\ clips[c].virality_score # NULL
          /\ clips[c].virality_score[1] \in 0..100
    /\ rankerInvoked /\ failedAt # "rank" =>
          Len(ai_suggestions) = Len(response.items)

\* C17: no Clip is persisted from a candidate that violates start < end or
\* whose duration lies outside the band of 20 to 30 seconds; the window
\* (10 s, 50 s) is never materialized unchanged.
C17_DurationBand ==
    \A c \in 1..Len(clips) :
        /\ clips[c].start_time < clips[c].end_time
        /\ clips[c].end_time - clips[c].start_time >= Sec(20)
        /\ clips[c].end_time - clips[c].start_time <= Sec(30)

\* two windows overlap unless one ends before the other starts
Overlap(a, b) == ~(a.end <= b.start \/ b.end <= a.start)

\* C18: no two windows of the returned candidate list overlap, hence no two
\* Clips persisted from one run overlap.
C18_NoOverlap ==
    /\ \A a, b \in Returned :
          (a # b /\ {"start", "end"} \subseteq
                        ai_suggestions[a].has \cap ai_suggestions[b].has)
              => ~Overlap(ai_suggestions[a], ai_suggestions[b])
    /\ \A c, d \in 1..Len(clips) :
          c # d => ~Overlap([start |-> clips[c].start_time, end |-> clips[c].end_time],
                            [start |-> clips[d].start_time, end |-> clips[d].end_time])

----------------------------------------------------------------------------
(* Claims about extract_clip_transcript (checked under ReanchorSpec) *)

\* the arguments of the call and, once it returned, its cues
ClipStart == call.args[2]
ClipEnd == call.args[3]
Cues == call.result

\* the segments that overlap the window, in input order
Overlapping ==
    SelectSeq(call.args[1], LAMBDA g : g.end > ClipStart /\ g.start < ClipEnd)

----------------------------------------------------------------------------
(* Claims about the crop computations (checked under CropSpec) *)

\* the source dimensions of a returned crop computation
CropCall == call.fn \in {"convert_to_shorts", "generate_crop_filter"} /\ call.returned
SourceWidth == IF call.fn = "convert_to_shorts" THEN call.args[1] ELSE call.args[2]
SourceHeight == IF call.fn = "convert_to_shorts" THEN call.args[2] ELSE call.args[3]

\* C21: for every source width and height >= 1, for the center crop and for
\* the smart crop with any trajectory (empty, or with positions on the
\* borders of the frame): the crop width and height are even and not larger
\* than the source, both offsets are >= 0, and the crop lies inside the
\* source: x_offset + crop_width <= width, y_offset + crop_height <= height.
C21_CropInsideSource ==
    CropCall =>
        /\ call.result.crop_width % 2 = 0
        /\ call.result.crop_height % 2 = 0
        /\ call.result.crop_width <= SourceWidth
        /\ call.result.crop_height <= SourceHeight
        /\ call.result.x_offset >= 0
        /\ call.result.y_offset >= 0
        /\ call.result.x_offset + call.result.crop_width <= SourceWidth
        /\ call.result.y_offset + call.result.crop_height <= SourceHeight

\* the smart crop of a source wider than 9:16, for a trajectory that stays in
\* the right-hand border: the offset was clamped to the largest one possible
C21_Witness ==
    /\ CropCall /\ call.fn = "generate_crop_filter"
    /\ Len(call.args[1]) >= 2
    /\ \A k \in 1..Len(call.args[1]) : call.args[1][k][1] = Rat(1, 1)
    /\ call.result.crop_width < SourceWidth
    /\ call.result.x_offset = SourceWidth - call.result.crop_width
    /\ call.result.x_offset > 0

\* C25: for the center crop the offsets are exactly
\* x_offset = (source_w - crop_w) div 2 and y_offset = (source_h - crop_h) div 2,
\* where crop_w and crop_h are the final, even-forced dimensions that are
\* passed to the crop filter.
C25_CenteredOnFinalCrop ==
    (CropCall /\ call.fn = "convert_to_shorts") =>
        /\ call.result.x_offset = (SourceWidth - call.result.crop_width) \div 2
        /\ call.result.y_offset = (SourceHeight - call.result.crop_height) \div 2

----------------------------------------------------------------------------
(* Claim about the frame sampling (checked under FramesSpec) *)

\* C24: for every number n >= 0 of input frames,
\* identify_viral_clips_multimodal passes at most max_frames (30) frames to
\* the oracle, selecting them with the stride max(1, n div 30).
C24_AtMostMaxFrames ==
    (call.fn = "identify_viral_clips_multimodal" /\ call.returned) =>
        LET n == Len(call.args[1])
            stride == IF n \div 30 >= 1 THEN n \div 30 ELSE 1
        IN /\ Cardinality(call.result.sent) <= 30
           /\ \A k \in call.result.sent : k % stride = 0
           /\ \A k \in 0..(n - 1) :
                 (k % stride = 0 /\ call.args[1][k + 1]) => k \in call.result.sent

----------------------------------------------------------------------------
(* Claim about the position smoother (checked under SmoothSpec) *)

\* the frames (from 0) of the call's sequence that carry a detection, the
\* only one if there is exactly one, and its position
Detected == {k \in 0..(Len(call.args[1]) - 1) : call.args[1][k + 1] # NULL}
OnlyDetection == CHOOSE k \in Detected : TRUE
DetectedPosition == <<call.args[1][OnlyDetection + 1][1],
                      call.args[1][OnlyDetection + 1][2]>>
HalfWindow == call.args[2] \div 2
SingleDetectionCall ==
    call.fn = "smooth_positions" /\ call.returned /\ Cardinality(Detected) = 1

PosEq(p, q) == RatEq(p[1], q[1]) /\ RatEq(p[2], q[2])

\* C26 (as stated): for a sequence of n frames with exactly one detection, at
\* frame k, and window size w, smooth_positions returns n positions that
\* equal the detected position at every index >= k, equal (0.5, 0.5) at
\* every index < k - floor(w/2), and are blended only in [k - floor(w/2), k).
C26_HeldForwardFromK ==
    SingleDetectionCall =>
        /\ Len(call.result) = Len(call.args[1])
        /\ \A idx \in 0..(Len(call.result) - 1) :
              /\ idx >= OnlyDetection
                    => PosEq(call.result[idx + 1], DetectedPosition)
              /\ idx < OnlyDetection - HalfWindow
                    => PosEq(call.result[idx + 1], Centre)

\* C26 (amended): ... smooth_positions returns n positions that equal the
\* detected position at every index >= k + floor(w/2) (at every index when
\* k = 0), equal (0.5, 0.5) at every index < k - floor(w/2), and at the
\* indices of [k - floor(w/2), k + floor(w/2)) are the mean of the window
\* [index - floor(w/2), index + floor(w/2)] cut to the sequence, in which the
\* frames before k count as (0.5, 0.5) and the frames from k on as the
\* detected position.
C26_BlendedAroundK ==
    SingleDetectionCall =>
        /\ Len(call.result) = Len(call.args[1])
        /\ \A idx \in 0..(Len(call.result) - 1) :
              LET lo == Max(0, idx - HalfWindow)
                  hi == Min(Len(call.result) - 1, idx + HalfWindow)
                  before == Cardinality({j \in lo..hi : j < OnlyDetection})
                  from == Cardinality({j \in lo..hi : j >= OnlyDetection})
                  out == call.result[idx + 1]
              IN /\ (idx >= OnlyDetection + HalfWindow \/ OnlyDetection = 0)
                       => PosEq(out, DetectedPosition)
                 /\ idx < OnlyDetection - HalfWindow => PosEq(out, Centre)
                 /\ \A c \in {1, 2} :
                       RatEq(out[c],
                             Rat(before * Centre[c].num * DetectedPosition[c].den
                                   + from * DetectedPosition[c].num * Centre[c].den,
                                 (before + from) * Centre[c].den
                                   * DetectedPosition[c].den))

\* a single detection in the middle of the sequence: the centre before the
\* window reaches it, a blend on both sides of it, the detected position
\* from k + floor(w/2) on
C26_Witness ==
    /\ SingleDetectionCall
    /\ HalfWindow >= 1
    /\ OnlyDetection - HalfWindow >= 1
    /\ OnlyDetection + HalfWindow <= Len(call.result) - 1
    /\ PosEq(call.result[1], Centre)
    /\ ~PosEq(call.result[OnlyDetection + 1], DetectedPosition)
    /\ ~PosEq(call.result[OnlyDetection + 1], Centre)
    /\ PosEq(call.result[Len(call.result)], DetectedPosition)

----------------------------------------------------------------------------
(* Claims about the stored conversions (checked under ShortsSpec) *)

\* the layouts the Clip model, the task and utils document
DocumentedLayouts == {"center_crop", "blurred", "smart"}

\* C23: the layout of every Clip row is null or one of center_crop, blurred
\* and smart, whatever string a request carries: no other value is stored.
\* (A row inserted through the Clip model takes the column default
\* "center_crop", so no row of the model has a null layout.)
C23_LayoutInDocumentedSet ==
    \A c \in ClipIds : clips[c].layout_type \in DocumentedLayouts

----------------------------------------------------------------------------
(* Claims about the rows of a run and the bucket (checked under Spec) *)

\* the rows the run holds: committed, or added to the worker's session
RunRows == {clips[n] : n \in 1..Len(clips)} \cup {pending[n] : n \in 1..Len(pending)}

\* C27: every Clip row, committed or added to the session, has a non-null
\* s3_key under which the bucket holds the clip's cut media: a row is added
\* only after upload_file returned true for it.
C27_ClipMediaUploaded ==
    \A row \in RunRows :
        /\ row.s3_key # NULL
        /\ Object(row.s3_key, "clip", FALSE) \in bucket

\* a finished run that committed a row for one candidate and skipped
\* another whose upload returned false
C27_Witness ==
    /\ wpc = "done"
    /\ Len(clips) >= 1
    /\ skipped # {}
    /\ \A idx \in skipped : \A o \in bucket : o.key # <<"clips", Owner, VideoId, idx>>

\* C28: the Clip rows of a run are committed in one transaction with the
\* run's terminal status: a step that changes the committed rows commits
\* all rows of the session and sets the Video's status to COMPLETED or
\* FAILED, and a run that ends with an exception commits the rows added for
\* the earlier candidates together with FAILED.
C28_RowsCommittedWithStatus ==
    [][/\ clips' # clips =>
            /\ clips' = clips \o pending
            /\ pending' = <<>>
            /\ video'.status \in Terminal
       /\ (wpc # "done" /\ wpc' = "done" /\ wresult' = "raised"
             /\ failedAt' \in PvtStages \cup {"candidate"}) =>
            /\ clips' = clips \o pending
            /\ pending' = <<>>
            /\ video'.status = "FAILED"]_vars

\* a run that raised at a later candidate and left a FAILED Video owning the
\* row of an earlier one
C28_Witness ==
    /\ wpc = "done"
    /\ wresult = "raised"
    /\ failedAt \in {"candidate", "cut", "upload"}
    /\ video.status = "FAILED"
    /\ Len(clips) >= 1

----------------------------------------------------------------------------
(* Claim about the temporary directories (checked under LifecycleSpec) *)

\* C22: the temporary directory of process_video_task, of
\* convert_clip_to_shorts_task and of convert_to_shorts_smart no longer
\* exists once that operation has returned or raised, on every exit path.
C22_TempDirsRemoved ==
    /\ wpc = "done" => ~temp_dir
    /\ \A n \in 1..Len(shortsTasks) :
          /\ shortsTasks[n].pc = "done" =>
                ~shortsTasks[n].temp_dir /\ ~shortsTasks[n].smart_dir
          /\ shortsTasks[n].pc # "smart" => ~shortsTasks[n].smart_dir

\* after a run that made and removed its directory: a smart conversion that
\* returned through its centre-crop fallback and completed, and a task that
\* returned "Failed"
C22_Witness ==
    /\ wpc = "done" /\ wresult = "Complete" /\ ~temp_dir
    /\ \E n, m \in 1..Len(shortsTasks) :
          /\ shortsTasks[n].pc = "done"
          /\ shortsTasks[n].status = "Complete"
          /\ shortsTasks[n].layout_type = "smart"
          /\ shortsTasks[n].conversion = "center_crop"
          /\ shortsTasks[m].pc = "done"
          /\ shortsTasks[m].status = "Failed"

----------------------------------------------------------------------------
(* Claim about the cache hit and captions (checked under ConvertedOnceSpec) *)

\* the request appended the reply `r` and dispatched nothing
AnsweredWith(r) == replies' = Append(replies, r) /\ shortsTasks' = shortsTasks

\* the cache-hit check ignores caption settings: a request of the owner for
\* the layout the clip is stored with, whatever its enable_captions, is
\* answered with the stored locator and dispatches nothing
HitWhateverCaptions ==
    Len(replies') = Len(replies) + 1 =>
        \A clip_id \in ClipIds, layout_type \in Layouts,
           enable_captions \in BOOLEAN :
             ((clips[clip_id].shorts_s3_key # NULL
                 /\ clips[clip_id].layout_type = layout_type)
                /\ convert_clip_to_shorts_for(clip_id, Owner, layout_type,
                                              enable_captions))
             => AnsweredWith(Reply(clip_id, "already_converted",
                                   clips[clip_id].shorts_s3_key,
                                   layout_type, 0))

\* C29 (as stated): the cache-hit check ignores caption settings: if a clip
\* already has a shorts artifact for layout L, every later request for L,
\* whatever its enable_captions, returns the existing artifact and
\* dispatches no conversion, so an artifact made without captions is never
\* replaced by a captioned one of the same layout.
C29_UncaptionedNeverReplaced ==
    [][/\ HitWhateverCaptions
       /\ \A o \in bucket :
             (o.key[1] = "shorts" /\ ~o.captions) =>
                \A o2 \in bucket' : o2.key = o.key => ~o2.captions]_vars

\* C29 (amended): if a clip's stored shorts locator is set and its stored
\* layout is L, every request of the owner for layout L handled in that
\* state, whatever its enable_captions, returns the stored locator and
\* dispatches no conversion.  (An artifact made without captions is still
\* replaced by a captioned one of the same layout, under the same key, by a
\* conversion dispatched while the stored layout was another one.)
C29_StoredLayoutIsReturned == [][HitWhateverCaptions]_vars

\* a request for the stored layout was answered with the artifact made
\* without captions, which is still the one in the bucket
C29_Witness ==
    \E n \in 1..Len(replies) :
        /\ replies[n].status = "already_converted"
        /\ replies[n].clip_id = 1
        /\ replies[n].layout_type = clips[1].layout_type
        /\ replies[n].shorts_download_url =
              ShortsKey(Owner, clips[1], replies[n].layout_type)
        /\ Object(replies[n].shorts_download_url, replies[n].layout_type, FALSE)
              \in bucket

----------------------------------------------------------------------------
(* Claim about the ownership check (checked under AccessSpec) *)

\* C30: a request to one of the three clip endpoints by a user who does not
\* own the clip's parent Video is denied with 403 in every state of the
\* clip: no presigned URL is returned, no conversion task is dispatched and
\* no Clip row (and no object of the bucket) changes.
C30_NonOwnerDenied ==
    [][Len(replies') = Len(replies) + 1 =>
         \A clip_id \in ClipIds, user_id \in Users \ {Owner} :
              (\/ get_clip_download_url_for(clip_id, user_id)
               \/ get_clip_shorts_url_for(clip_id, user_id)
               \/ \E layout_type \in Layouts, enable_captions \in BOOLEAN :
                     convert_clip_to_shorts_for(clip_id, user_id, layout_type,
                                                enable_captions))
              => /\ replies' = Append(replies, Denied("403"))
                 /\ UNCHANGED <<shortsTasks, clips, bucket>>]_vars

\* a request was denied with 403 while one clip was converted, the other
\* was not, and the owner had been handed a URL
C30_Witness ==
    /\ \E n \in 1..Len(replies) : replies[n] = Denied("403")
    /\ clips[1].shorts_s3_key # NULL
    /\ clips[2].shorts_s3_key = NULL
====
